---- MODULE Spec2Model ----
(***************************************************************************)
(* Certificate generator (src/app.py): a Flask application with two        *)
(* routes.  POST /generate-certificate validates a JSON body, renders a    *)
(* fixed-layout certificate with CertificatePDF, writes it under           *)
(* static/certificates and answers with a download URL.                    *)
(* GET /static/certificates/<filename> serves a stored file.               *)
(*                                                                         *)
(* Lengths are millimetres in fixed point, 20000 units to the millimetre,  *)
(* so that a string width at 36 pt (0.0127 mm per font unit) and its half  *)
(* are both whole numbers.  Strings are sequences of tokens.               *)
(***************************************************************************)
EXTENDS Integers, Sequences, FiniteSets, TLC

VARIABLES
    env,      \* os.environ: the BASE_URL setting, fixed for the process
    files,    \* the directory static/certificates: filename -> file
    req,      \* the POST requests, each at its place in generate_certificate
    issued,   \* the values uuid.uuid4() has returned
    wlog,     \* history: which request's pdf.output wrote which filename
    got       \* the last GET and its answer

vars == <<env, files, req, issued, wlog, got>>

----------------------------------------------------------------------------
(* Bounds of the model *)

\* POST requests of a run, each handled by its own thread
MaxReq == 2
\* length of the long recipient name of the samples
LongName == 26

Requests == 1..MaxReq

----------------------------------------------------------------------------
(* Lengths *)

MM(n) == n * 20000

\* A4 landscape, CertificatePDF.__init__ and draw_background
PAGE_W == 297
PAGE_H == 210


\* 297 / 2, add_user_data
page_center == MM(PAGE_W) \div 2

\* FPDF's default margins, 28.35 pt = 10.00125 mm
MARGIN == 200025

----------------------------------------------------------------------------
(* Strings and JSON values *)

Range(s) == {s[i] : i \in 1..Len(s)}

RECURSIVE Rep(_, _)
Rep(c, n) == IF n = 0 THEN <<>> ELSE <<c>> \o Rep(c, n - 1)

\* A value of the JSON object: a string, a number, or no value
\* (dict.get returns None for a missing key and for a JSON null).
Absent == [t |-> "absent", s |-> <<>>, n |-> 0]
Str(s) == [t |-> "str", s |-> s, n |-> 0]
Num(n) == [t |-> "num", s |-> <<>>, n |-> n]

\* Python truthiness of a field value
Truthy(v) ==
    CASE v.t = "str" -> v.s # <<>>
      [] v.t = "num" -> v.n # 0
      [] OTHER -> FALSE

Digits == <<"0", "1", "2", "3", "4", "5", "6", "7", "8", "9">>

\* An f-string's formatting of a field value (numbers are single digits here)
Format(v) ==
    CASE v.t = "str" -> v.s
      [] v.t = "num" -> <<Digits[v.n + 1]>>
      [] OTHER -> <<"None">>

\* The core fonts are latin-1 only: FPDF raises on any other character.
\* "Lstroke" stands for such a character.
Encodable(s) == "Lstroke" \notin Range(s)

\* Character widths of the core font, in 1/1000 of the font size
CharWidth(c) ==
    CASE c = "W" -> 944
      [] c = "i" -> 222
      [] OTHER -> 556

RECURSIVE SumWidth(_)
SumWidth(s) == IF s = <<>> THEN 0 ELSE CharWidth(Head(s)) + SumWidth(Tail(s))

----------------------------------------------------------------------------
(* The FPDF object: graphics state and the operations drawn on the page *)

NewPDF ==
    [font |-> <<"", "", 0>>, tcolor |-> <<0, 0, 0>>, fcolor |-> <<0, 0, 0>>,
     lw |-> MM(2) \div 10, x |-> MARGIN, y |-> MARGIN, ops |-> <<>>]

\* One entry of the page: the call, its arguments, and the graphics state
\* it is drawn with.
Emit(pdf, op, x1, y1, x2, y2, text, align) ==
    [pdf EXCEPT !.ops = Append(@,
        [op |-> op, x1 |-> x1, y1 |-> y1, x2 |-> x2, y2 |-> y2,
         text |-> text, align |-> align,
         font |-> pdf.font, tcolor |-> pdf.tcolor, fcolor |-> pdf.fcolor,
         lw |-> pdf.lw, x |-> pdf.x, y |-> pdf.y])]

set_font(pdf, family, style, size) == [pdf EXCEPT !.font = <<family, style, size>>]
set_text_color(pdf, r, g, b) == [pdf EXCEPT !.tcolor = <<r, g, b>>]
set_fill_color(pdf, r, g, b) == [pdf EXCEPT !.fcolor = <<r, g, b>>]
set_line_width(pdf, w) == [pdf EXCEPT !.lw = w]

\* FPDF.set_xy: a negative coordinate counts from the right or bottom edge.
\* The call is recorded with the arguments it was given.
set_xy(pdf, x, y) ==
    LET p == Emit(pdf, "set_xy", x, y, 0, 0, <<>>, "")
    IN  [p EXCEPT !.x = IF x >= 0 THEN x ELSE MM(PAGE_W) + x,
                  !.y = IF y >= 0 THEN y ELSE MM(PAGE_H) + y]

\* FPDF.get_string_width in millimetres: sum of widths * size pt / 1000 / k,
\* k = 72 / 25.4
get_string_width(pdf, s) == (SumWidth(s) * pdf.font[3] * 127) \div 18

image(pdf, path, x, y, w, h) == Emit(pdf, "image", x, y, w, h, <<path>>, "")
rect(pdf, x, y, w, h, style) == Emit(pdf, "rect", x, y, w, h, <<>>, style)
line(pdf, x1, y1, x2, y2) == Emit(pdf, "line", x1, y1, x2, y2, <<>>, "")

\* FPDF.write(h, text): text flowing from the cursor
write(pdf, h, text) ==
    LET p == Emit(pdf, "write", pdf.x, pdf.y, 0, h, text, "")
    IN  [p EXCEPT !.x = @ + get_string_width(pdf, text)]

\* FPDF.cell(w, h, text, border, ln, align): w = 0 reaches the right margin;
\* ln = 1 moves to the start of the next line.
cell(pdf, w, h, text, ln, align) ==
    LET width == IF w = 0 THEN MM(PAGE_W) - MARGIN - pdf.x ELSE w
        p == Emit(pdf, "cell", pdf.x, pdf.y, width, h, text, align)
    IN  IF ln = 1 THEN [p EXCEPT !.x = MARGIN, !.y = @ + h]
        ELSE [p EXCEPT !.x = @ + width]

\* FPDF.multi_cell(w, h, text, new_x=LMARGIN, new_y=NEXT, align)
multi_cell(pdf, w, h, text, align) ==
    LET p == Emit(pdf, "multi_cell", pdf.x, pdf.y, w, h, text, align)
    IN  [p EXCEPT !.x = MARGIN, !.y = @ + h]

----------------------------------------------------------------------------
(* CertificatePDF *)

BG_IMAGE_PATH == "certificate_bg.png"

\* Vertical positions of the three blocks, add_user_data
y_name == 110
y_course == 135
y_issue == 175

Returned(pdf) == [raised |-> FALSE, pdf |-> pdf]
Raised(pdf) == [raised |-> TRUE, pdf |-> pdf]

\* Mutant: draw_background without its try/except
draw_background_raising(pdf, bgOK) ==
    IF bgOK
    THEN Returned(image(pdf, BG_IMAGE_PATH, 0, 0, MM(PAGE_W), MM(PAGE_H)))
    ELSE Raised(pdf)

\* Mutant: the fallback without the colour reset of its last line
draw_background_no_reset(pdf, bgOK) ==
    IF bgOK
    THEN Returned(image(pdf, BG_IMAGE_PATH, 0, 0, MM(PAGE_W), MM(PAGE_H)))
    ELSE LET p1 == set_fill_color(pdf, 240, 240, 240)
             p2 == rect(p1, 0, 0, MM(PAGE_W), MM(PAGE_H), "F")
             p3 == set_text_color(p2, 255, 0, 0)
             p4 == set_font(p3, "Arial", "B", 48)
             p5 == set_xy(p4, MM(50), MM(100))
             p6 == cell(p5, 0, MM(10), <<"IMAGE NOT FOUND - CHECK PATH">>, 1, "C")
         IN  Returned(p6)

\* draw_background: the image over the whole page; when self.image raises
\* (bgOK = FALSE) the except branch draws the fallback and swallows the error.
draw_background(pdf, bgOK) ==
    IF bgOK
    THEN Returned(image(pdf, BG_IMAGE_PATH, 0, 0, MM(PAGE_W), MM(PAGE_H)))
    ELSE LET p1 == set_fill_color(pdf, 240, 240, 240)
             p2 == rect(p1, 0, 0, MM(PAGE_W), MM(PAGE_H), "F")
             p3 == set_text_color(p2, 255, 0, 0)
             p4 == set_font(p3, "Arial", "B", 48)
             p5 == set_xy(p4, MM(50), MM(100))
             p6 == cell(p5, 0, MM(10), <<"IMAGE NOT FOUND - CHECK PATH">>, 1, "C")
             p7 == set_text_color(p6, 0, 0, 0)
         IN  Returned(p7)

\* CertificatePDF.__init__: a new page, then the background
CertificatePDF(bgOK) == draw_background(NewPDF, bgOK)

\* Mutant: the width not halved
x_center_full_width(name_width) == page_center - name_width

\* page_center - (name_width / 2)
x_center(name_width) == page_center - (name_width \div 2)

\* The body sentence, an f-string over the course name and the date range
main_text(course_name, date_range) ==
    <<"for successfully completing the **">> \o Format(course_name)
        \o <<"** course,", " which ran from ">> \o Format(date_range) \o <<".">>

issue_text(issue_date) == <<"Date Issued: ">> \o Format(issue_date)

\* add_user_data: the name centred and underlined, the body sentence, the
\* issue date.  FPDF raises on a name that is not a string and on text the
\* core font cannot encode.
add_user_data(pdf, user_name, course_name, date_range, issue_date) ==
    LET p1 == set_font(pdf, "Arial", "I", 36)
        name == user_name.s
        name_width == get_string_width(p1, name)
        x_name == x_center(name_width)
        p2 == set_xy(p1, x_name, MM(y_name))
        p3 == write(p2, MM(10), name)
        underline_y == MM(y_name) + MM(10)
        p4 == set_line_width(p3, MM(7) \div 10)
        p5 == line(p4, x_name, underline_y, x_name + name_width, underline_y)
        p6 == set_font(p5, "Arial", "", 18)
        body == main_text(course_name, date_range)
        p7 == set_xy(p6, MM(50), MM(y_course))
        p8 == multi_cell(p7, MM(197), MM(8), body, "C")
        p9 == set_font(p8, "Arial", "", 14)
        p10 == set_xy(p9, MM(200), MM(y_issue))
        issue == issue_text(issue_date)
        p11 == cell(p10, 0, MM(10), issue, 1, "L")
    IN  CASE user_name.t # "str" \/ ~Encodable(name) -> Raised(p1)
          [] ~Encodable(body) -> Raised(p7)
          [] ~Encodable(issue) -> Raised(p10)
          [] OTHER -> Returned(p11)

----------------------------------------------------------------------------
(* Requests *)

Fields == {"userName", "courseName", "dateRange", "issueDate"}

NoFields == [f \in Fields |-> Absent]

\* A request body: text that is no JSON, or a JSON null, array or object
Unparseable == [kind |-> "unparseable", len |-> 0, f |-> NoFields]
JsonNull == [kind |-> "null", len |-> 0, f |-> NoFields]
JsonArray(n) == [kind |-> "array", len |-> n, f |-> NoFields]
JsonObject(f) == [kind |-> "object", len |-> 0, f |-> f]

Jane == <<"W", "i">>
Course == <<"Systems Design">>
Dates == <<"Jan 2024 - Mar 2024">>
Issued == <<"2024-03-15">>

Example ==
    [f \in Fields |->
        CASE f = "userName" -> Str(Jane)
          [] f = "courseName" -> Str(Course)
          [] f = "dateRange" -> Str(Dates)
          [] OTHER -> Str(Issued)]

With(f, v) == [Example EXCEPT ![f] = v]

\* Objects that pass validation
ValidBodies ==
    { JsonObject(Example),
      JsonObject(With("userName", Str(Rep("W", LongName)))),
      JsonObject(With("userName", Str(<<"Lstroke">>))),
      JsonObject(With("userName", Num(5))),
      JsonObject(With("courseName", Num(5))) }

\* Objects with one field missing, empty or zero
InvalidBodies ==
    { JsonObject(With(f, v)) : f \in Fields, v \in {Absent, Str(<<>>)} }
        \cup { JsonObject(With("issueDate", Num(0))), JsonObject(NoFields) }

\* Bodies that are no JSON object
MalformedBodies == { Unparseable, JsonNull, JsonArray(0), JsonArray(1) }

Bodies == ValidBodies \cup InvalidBodies \cup MalformedBodies

\* The first request of a run ranges over all the bodies, the requests that
\* run beside it over the example and one body with a missing field.
CoreBodies == { JsonObject(Example), JsonObject(With("userName", Absent)) }

BodiesOf(r) == IF r = 1 THEN Bodies ELSE CoreBodies

\* Python truthiness of the parsed body
DataTruthy(data) ==
    CASE data.kind = "object" -> \E f \in Fields : data.f[f].t # "absent"
      [] data.kind = "array" -> data.len > 0
      [] OTHER -> FALSE

\* Mutant: any() for all()
any_field(data) == \E f \in Fields : Truthy(data.f[f])

\* all([user_name, course_name, date_range, issue_date])
all_fields(data) == \A f \in Fields : Truthy(data.f[f])

\* The three answers of generate_certificate
BadRequest(msg) ==
    [status |-> 400, keys |-> {"error"}, error |-> msg, url |-> <<>>]

InternalError ==
    [status |-> 500, keys |-> {"error"},
     error |-> "Internal server error during PDF generation", url |-> <<>>]

Success(download_url) ==
    [status |-> 200, keys |-> {"status", "message", "downloadUrl"},
     error |-> "", url |-> download_url]

NoResponse == [status |-> 0, keys |-> {}, error |-> "", url |-> <<>>]

\* The try block up to the validation: the answer it returns, or NoResponse
\* when the request goes on.  request.get_json() raises on a body it cannot
\* parse and data.get raises on a value that is no dict; the except clause
\* turns both into the 500 answer.
validate(body) ==
    CASE body.kind = "unparseable" -> InternalError
      [] ~DataTruthy(body) -> BadRequest("No JSON data provided")
      [] body.kind # "object" -> InternalError
      [] ~all_fields(body) ->
            BadRequest("Missing required fields (userName, courseName, dateRange, issueDate)")
      [] OTHER -> NoResponse

\* uuid.uuid4(): a value it has not returned before.  Nothing reads a value
\* but to compare it, so the values are drawn in a fixed order.
UuidText == <<"uuid-a", "uuid-b", "uuid-c", "uuid-d", "uuid-e">>

uuid4(drawn) == UuidText[Cardinality(drawn) + 1]

\* Mutant: the file named after the recipient
make_filename_of_name(u, body) ==
    <<"certificate_">> \o Format(body.f["userName"]) \o <<".pdf">>

\* f"certificate_{uuid.uuid4()}.pdf"
make_filename(u, body) == <<"certificate_", u, ".pdf">>

\* The address the service is reached at, and request.url_root
Origin == <<"https://", "my-cert-backend.onrender.com">>
url_root == Origin \o <<"/">>

\* os.environ with or without BASE_URL
Unset == [set |-> FALSE, value |-> <<>>]
Setting(v) == [set |-> TRUE, value |-> v]

Environments == { Unset, Setting(Origin \o <<"/">>), Setting(Origin) }

\* Mutant: the setting not read
base_url_of_request(e) == url_root

\* os.environ.get("BASE_URL", request.url_root)
base_url(e) == IF e.set THEN e.value ELSE url_root

\* f"{base_url}static/certificates/{filename}"
download_url(e, filename) ==
    base_url(e) \o <<"static", "/", "certificates", "/">> \o filename


----------------------------------------------------------------------------
(* The stored files and GET /static/certificates/<filename> *)

NoFiles == [n \in {} |-> n]

\* A complete file holds the PDF header and trailer around the page
PdfFile(ops) == [data |-> ops, complete |-> TRUE]
\* What a write that failed midway leaves behind
Truncated == [data |-> <<>>, complete |-> FALSE]

Size(file) == Len(file.data) + (IF file.complete THEN 2 ELSE 0)

\* Mutant: the directory emptied before the write
Store_alone(dir, filename, file) == [n \in {filename} |-> file]

\* Writing a file creates it or replaces what the name held
Store(dir, filename, file) ==
    [n \in DOMAIN dir \cup {filename} |-> IF n = filename THEN file ELSE dir[n]]

NoAnswer == [status |-> 0, file |-> Truncated]
NotFound == [status |-> 404, file |-> Truncated]

\* download_file: send_from_directory answers with the file, or 404
download_file(dir, filename) ==
    IF filename \in DOMAIN dir
    THEN [status |-> 200, file |-> dir[filename]]
    ELSE NotFound

\* Index of the first "/" of a URL after its scheme, 0 if there is none
FirstSlash(url) ==
    LET at == {i \in 2..Len(url) : url[i] = "/"}
    IN  IF at = {} THEN 0 ELSE CHOOSE i \in at : \A j \in at : i <= j

StaticPrefix == <<"static", "/", "certificates", "/">>

\* A client's GET of a URL: the host is what stands between the scheme and
\* the first "/", and only a request that reaches this service is routed.
Fetch(dir, url) ==
    LET i == FirstSlash(url)
        host == SubSeq(url, 1, i - 1)
        path == SubSeq(url, i + 1, Len(url))
    IN  CASE i = 0 \/ host # Origin -> NoAnswer
          [] Len(path) > 4 /\ SubSeq(path, 1, 4) = StaticPrefix ->
                download_file(dir, SubSeq(path, 5, Len(path)))
          [] OTHER -> NotFound

----------------------------------------------------------------------------
(* State *)

Idle ==
    [pc |-> "idle", body |-> JsonNull, uuid |-> "", filename |-> <<>>,
     bgOK |-> TRUE, pdf |-> <<>>, resp |-> NoResponse]

NoGet == [url |-> <<>>, answer |-> NoAnswer]

Init ==
    /\ env \in Environments
    /\ files = NoFiles
    /\ req = [r \in Requests |-> Idle]
    /\ issued = {}
    /\ wlog = {}
    /\ got = NoGet

Finish(r, resp) == [req EXCEPT ![r].pc = "done", ![r].resp = resp]

\* Mutant: the exception of pdf.output swallowed
output_answer_ignoring(outcome, url) == Success(url)

\* The end of the try block: the 200 answer after pdf.output returned, the
\* except clause's answer when it raised
output_answer(outcome, url) ==
    IF outcome = "ok" THEN Success(url) ELSE InternalError

\* Lines 95-110: parse, validate, name the file
Receive(r, body) ==
    /\ req[r].pc = "idle"
    /\ LET early == validate(body)
       IN  IF early # NoResponse
           THEN /\ req' = [req EXCEPT ![r].pc = "done", ![r].body = body,
                                      ![r].resp = early]
                /\ UNCHANGED issued
           ELSE LET u == uuid4(issued)
                IN  /\ req' = [req EXCEPT ![r].pc = "named", ![r].body = body,
                                          ![r].uuid = u,
                                          ![r].filename = make_filename(u, body)]
                    /\ issued' = issued \cup {u}
    /\ UNCHANGED <<env, files, wlog, got>>

\* Lines 113-114: CertificatePDF(BG_IMAGE_PATH) and add_user_data.  The
\* image is readable or not; an exception ends the request in the except
\* clause.
Render(r, bgOK) ==
    /\ req[r].pc = "named"
    /\ LET f == req[r].body.f
           c == CertificatePDF(bgOK)
           a == add_user_data(c.pdf, f["userName"], f["courseName"],
                              f["dateRange"], f["issueDate"])
       IN  IF c.raised \/ a.raised
           THEN req' = [req EXCEPT ![r].pc = "done", ![r].bgOK = bgOK,
                                   ![r].resp = InternalError]
           ELSE req' = [req EXCEPT ![r].pc = "rendered", ![r].bgOK = bgOK,
                                   ![r].pdf = a.pdf.ops]
    /\ UNCHANGED <<env, files, issued, wlog, got>>

\* Lines 117-133: pdf.output(filepath) and the answer.  The write succeeds,
\* fails before the file exists, or fails leaving a truncated file.
Output(r, outcome) ==
    /\ req[r].pc = "rendered"
    /\ req' = Finish(r, output_answer(outcome,
                                       download_url(env, req[r].filename)))
    /\ CASE outcome = "ok" ->
              /\ files' = Store(files, req[r].filename, PdfFile(req[r].pdf))
              /\ wlog' = wlog \cup {[rid |-> r, file |-> req[r].filename]}
         [] outcome = "truncated" ->
              /\ files' = Store(files, req[r].filename, Truncated)
              /\ wlog' = wlog \cup {[rid |-> r, file |-> req[r].filename]}
         [] OTHER -> UNCHANGED <<files, wlog>>
    /\ UNCHANGED <<env, issued, got>>

Outcomes == {"ok", "truncated", "refused"}

\* A client's GET: of a URL some request answered with, or of a name that
\* was never written
Download(url) ==
    /\ got' = [url |-> url, answer |-> Fetch(files, url)]
    /\ UNCHANGED <<env, files, req, issued, wlog>>

Urls ==
    {req[r].resp.url : r \in {q \in Requests : req[q].resp.status = 200}}
        \cup {url_root \o StaticPrefix \o <<"missing.pdf">>}

Next ==
    \/ \E r \in Requests : \E body \in BodiesOf(r) : Receive(r, body)
    \/ \E r \in Requests, bgOK \in BOOLEAN : Render(r, bgOK)
    \/ \E r \in Requests, outcome \in Outcomes : Output(r, outcome)
    \/ \E url \in Urls : Download(url)

Spec == Init /\ [][Next]_vars

----------------------------------------------------------------------------
(* Properties *)

Done(r) == req[r].pc = "done"
Answer(r) == req[r].resp
Wrote(r) == \E w \in wlog : w.rid = r

\* The body is a JSON object that lacks a required field or gives it empty
LacksField(body) ==
    /\ body.kind = "object"
    /\ \E f \in Fields : body.f[f] = Absent \/ body.f[f] = Str(<<>>)

\* C1: a request whose JSON body lacks one of the four fields, or gives it
\* empty, is answered 400 with an error field; it was given no filename and
\* it wrote nothing to the certificate directory.
C1_MissingFieldIs400 ==
    \A r \in Requests :
        Done(r) /\ LacksField(req[r].body) =>
            /\ Answer(r).status = 400
            /\ "error" \in Answer(r).keys
            /\ Answer(r).error # ""
            /\ req[r].filename = <<>>
            /\ ~Wrote(r)

C1_Witness ==
    \E r \in Requests :
        /\ Done(r)
        /\ req[r].body = JsonObject(With("courseName", Str(<<>>)))
        /\ Answer(r).status = 400
        /\ \E q \in Requests : Wrote(q)

\* The body is not a JSON object holding the four fields as strings
Malformed(body) ==
    \/ body.kind # "object"
    \/ \E f \in Fields : body.f[f].t = "num"

\* C2: a request with a malformed body (no JSON, or JSON that is not an
\* object of four string fields) is answered 400 with an error field.
C2_MalformedIs400 ==
    \A r \in Requests :
        Done(r) /\ Malformed(req[r].body) =>
            Answer(r).status = 400 /\ "error" \in Answer(r).keys

\* All four fields are present and non-empty
ValidRequest(body) == body.kind = "object" /\ all_fields(body)

EndsInPdf(url) == url # <<>> /\ url[Len(url)] = ".pdf"

\* C3: whatever the BASE_URL setting, a valid request that did not end in
\* the 500 answer is answered 200 with a downloadUrl that ends in .pdf, and
\* a GET of that URL returns the non-empty file the request wrote.
C3_UrlServesTheFile ==
    \A r \in Requests :
        Done(r) /\ ValidRequest(req[r].body) /\ Answer(r).status # 500 =>
            /\ Answer(r).status = 200
            /\ EndsInPdf(Answer(r).url)
            /\ Fetch(files, Answer(r).url).status = 200
            /\ Fetch(files, Answer(r).url).file = PdfFile(req[r].pdf)
            /\ Size(Fetch(files, Answer(r).url).file) > 0

\* C4: requests that have been given a filename have different filenames,
\* also with identical fields; no two requests write the same path, and the
\* directory holds one file for each request that wrote.
C4_DistinctFiles ==
    /\ \A a, b \in Requests :
          a # b /\ req[a].filename # <<>> /\ req[b].filename # <<>> =>
              req[a].filename # req[b].filename
    /\ \A v, w \in wlog : v.file = w.file => v.rid = w.rid
    /\ Cardinality(DOMAIN files) = Cardinality({w.rid : w \in wlog})

C4_Witness ==
    /\ \A r \in Requests : req[r].pc = "rendered"
    /\ \E a, b \in Requests : a # b /\ req[a].body = req[b].body

\* C5: a validated request whose rendering or file write failed is answered
\* with the generic 500; the answer is 200 exactly when the complete file
\* was written; what a failed write left behind stays in the directory.
C5_FailureIs500 ==
    \A r \in Requests :
        Done(r) /\ req[r].filename # <<>> =>
            LET n == req[r].filename
                written == /\ req[r].pdf # <<>>
                           /\ n \in DOMAIN files
                           /\ files[n] = PdfFile(req[r].pdf)
            IN  /\ Answer(r).status = 200 <=> written
                /\ ~written =>
                      /\ Answer(r).status = 500
                      /\ Answer(r).keys = {"error"}
                      /\ Answer(r).error = "Internal server error during PDF generation"
                /\ Wrote(r) => n \in DOMAIN files

C5_Witness ==
    \E a, b \in Requests :
        /\ Done(a) /\ Done(b)
        /\ req[a].body = JsonObject(With("userName", Str(<<"Lstroke">>)))
        /\ Answer(a).status = 500
        /\ req[b].pdf # <<>> /\ Answer(b).status = 500
        /\ req[b].filename \in DOMAIN files
        /\ ~files[req[b].filename].complete

\* The fields of a request, rendered over the background read as bgOK
RenderOf(r, bgOK) ==
    LET f == req[r].body.f
    IN  add_user_data(CertificatePDF(bgOK).pdf, f["userName"], f["courseName"],
                      f["dateRange"], f["issueDate"])

\* C6: with the background image unreadable, draw_background raises nothing:
\* the page starts with the filled rectangle over (0,0)-(297,210) and the
\* error label, rendering fails only where it fails with the image too,
\* and a request whose file was written is answered 200.
C6_FallbackBackground ==
    \A r \in Requests :
        req[r].pc \in {"rendered", "done"} /\ req[r].filename # <<>>
            /\ ~req[r].bgOK =>
                LET ops == req[r].pdf
                    n == req[r].filename
                IN  /\ ops = <<>> <=> RenderOf(r, TRUE).raised
                    /\ ops # <<>> =>
                          /\ ops[1].op = "rect" /\ ops[1].align = "F"
                          /\ <<ops[1].x1, ops[1].y1>> = <<0, 0>>
                          /\ <<ops[1].x2, ops[1].y2>> = <<5940000, 4200000>>
                          /\ ops[1].fcolor = <<240, 240, 240>>
                          /\ ops[3].op = "cell"
                          /\ ops[3].text = <<"IMAGE NOT FOUND - CHECK PATH">>
                    /\ Done(r) /\ n \in DOMAIN files /\ files[n].complete =>
                          /\ Answer(r).status = 200
                          /\ files[n].data = ops
                          /\ ops # <<>>

C6_Witness ==
    \E r \in Requests :
        /\ Done(r) /\ ~req[r].bgOK
        /\ Answer(r).status = 200
        /\ req[r].filename \in DOMAIN files
        /\ files[req[r].filename].data[1].op = "rect"

\* C7: a stored file is never changed or removed by a later step, and a GET
\* leaves the directory as it is.
C7_FilesImmutable ==
    [][ /\ \A n \in DOMAIN files : n \in DOMAIN files' /\ files'[n] = files[n]
        /\ got' # got => files' = files ]_vars

C7_Witness ==
    /\ Cardinality(DOMAIN files) = MaxReq
    /\ got.answer.status = 200
    /\ \E r \in Requests : Done(r) /\ Answer(r).status = 500

FirstWrite(ops) == CHOOSE k \in 1..Len(ops) : ops[k].op = "write"

\* C8: the name is placed at x = 148.5 - w/2, y = 110, w its measured width
\* at 36 pt, and the underline is drawn 0.7 thick from (x, 120) to
\* (x + w, 120): its length is w and its middle is 148.5.
C8_NameCentred ==
    \A r \in Requests :
        req[r].pdf # <<>> =>
            LET ops == req[r].pdf
                name == req[r].body.f["userName"].s
                w == SumWidth(name) * 254
                k == FirstWrite(ops)
                at == ops[k - 1]
                under == ops[k + 1]
            IN  /\ ops[k].text = name
                /\ at.op = "set_xy"
                /\ 2 * at.x1 = 5940000 - w
                /\ at.y1 = 2200000
                /\ under.op = "line" /\ under.lw = 14000
                /\ <<under.x1, under.y1>> = <<at.x1, at.y1 + 200000>>
                /\ <<under.x2, under.y2>> = <<at.x1 + w, at.y1 + 200000>>
                /\ under.x2 - under.x1 = w
                /\ under.x1 + under.x2 = 5940000

C8_Witness ==
    \E r \in Requests :
        /\ req[r].pdf # <<>>
        /\ req[r].body.f["userName"].s = Rep("W", LongName)

\* C9: the downloadUrl of a 200 answer is the BASE_URL setting when there is
\* one, else the request's root URL, followed by static/certificates/ and
\* the filename this request wrote.
C9_DownloadUrl ==
    \A r \in Requests :
        Done(r) /\ Answer(r).status = 200 =>
            LET base == IF env.set THEN env.value
                        ELSE <<"https://", "my-cert-backend.onrender.com", "/">>
            IN  /\ Answer(r).url =
                      base \o <<"static", "/", "certificates", "/">> \o req[r].filename
                /\ [rid |-> r, file |-> req[r].filename] \in wlog
                /\ req[r].filename \in DOMAIN files

C9_Witness ==
    \E a, b \in Requests :
        /\ a # b /\ env.set
        /\ Answer(a).status = 200 /\ Answer(b).status = 200

\* What a draw operation puts on the page: the call, where, and the font,
\* text colour and line width it is drawn with
Drawn(o) ==
    [op |-> o.op, x1 |-> o.x1, y1 |-> o.y1, x2 |-> o.x2, y2 |-> o.y2,
     text |-> o.text, align |-> o.align, font |-> o.font,
     tcolor |-> o.tcolor, lw |-> o.lw]

\* The operations of add_user_data, the last seven of a page
UserOps(ops) == [i \in 1..7 |-> Drawn(ops[Len(ops) - 7 + i])]

\* C10: the operations add_user_data draws are the same over the image and
\* over the fallback background.
C10_SameUserOps ==
    \A r \in Requests :
        req[r].pdf # <<>> =>
            UserOps(req[r].pdf) = UserOps(RenderOf(r, ~req[r].bgOK).pdf.ops)

C10_Witness ==
    \E r \in Requests :
        /\ req[r].pdf # <<>> /\ ~req[r].bgOK
        /\ req[r].pdf[Len(req[r].pdf)].tcolor = <<0, 0, 0>>
        /\ req[r].pdf[Len(req[r].pdf)].fcolor = <<240, 240, 240>>

====
